---- MODULE Spec2Model ----
(***************************************************************************)
(* Asset-generation pipelines of the midjourney-api examples.              *)
(*                                                                         *)
(*   storyboard : src/example/anime.ts, main() (lines 208-499): the        *)
(*                ledger-based run over the built-in story, with           *)
(*                progress.json and character_references.json.             *)
(*   generator  : src/example/exampleScript.ts, AnimeSceneGenerator: the   *)
(*                script-driven run that keeps every variation.            *)
(*   sceneGenerator : src/example/anime.ts, AnimeSceneGenerator (lines     *)
(*                31-203): the script-driven run that upscales option 1.   *)
(*                                                                         *)
(* One behaviour follows one of the programs (variable program).  Every    *)
(* awaited call of the code is one action; the outcome of a backend call   *)
(* or of a file operation is drawn with \E.                                *)
(***************************************************************************)
EXTENDS Integers, Sequences, FiniteSets, TLC

VARIABLES
  program,        \* which program this behaviour runs
  run,            \* number of invocations of the program so far
  pc,             \* position of the single thread of control
  \* ---- storyboard: files under output/ (they outlive a run)
  ledgerFile,     \* output/progress.json
  refsFile,       \* output/character_references.json
  artifacts,      \* names of the images written under output/*_images
  \* ---- storyboard: memory of one run of main()
  progress,       \* const progress = await loadProgress()
  characterRefs,  \* const characterRefs: Record<string, string>
  ci,             \* position of the for-loop over story.mainCharacters
  si,             \* position of the for-loop over story.scenes
  phase,          \* "characters" or "scenes": which loop is running
  upscaled,       \* upscaled.uri of the item being generated
  client,         \* the Midjourney client: "none", "new", "connected", "failed"
  closed,         \* client.Close() has been called
  inflight,       \* backend operations issued and not yet settled
  \* ---- history of the run (what was observed, read by no action)
  log,            \* backend calls and delays of this run, in order
  loaded,         \* what loadProgress returned in this run
  failed,         \* items whose generation or saving failed in this run
  prevFailed,     \* the items of failed, of the run before
  prevEnd,        \* how the run before ended (its last pc)
  saved,          \* items whose ledger save has completed, in any run
  savedAtStart,   \* saved, when this run started
  saves,          \* the states whose saveProgress has completed, in order
  refsAtScenes,   \* characterRefs when the scene loop was entered
  fatal,          \* setup failures of this run: "script", "scaffold", "connect"
  \* ---- generator: input, memory and files of AnimeSceneGenerator
  script,         \* the AnimeScript read from scriptPath
  imagine,        \* imagine.options.length of the item being generated
  vi,             \* i of the loop over imagine.options
  variationFiles, \* <<outputName, i>>: variations/<outputName>/variation_<i>.png
  mainFiles,      \* outputName -> uri downloaded to <outputName>.png
  metadataFiles   \* outputName -> metadata.selectedVariation

\* What only the generator reads or writes.
generatorVars ==
  <<script, imagine, vi, variationFiles, mainFiles, metadataFiles>>

\* What only the storyboard reads or writes.
storyboardVars ==
  <<ledgerFile, refsFile, artifacts, progress, upscaled, loaded, saved,
    savedAtStart, saves>>

vars == <<program, run, pc, ledgerFile, refsFile, artifacts, progress,
          characterRefs, ci, si, phase, upscaled, client, closed,
          inflight, log, loaded, failed, prevFailed, prevEnd, saved,
          savedAtStart, saves, refsAtScenes, fatal, script, imagine, vi,
          variationFiles, mainFiles, metadataFiles>>

\* ------------------------------------------------------------------ bounds
\* Invocations of a program in one behaviour.
MaxRuns == 2

\* ------------------------------------------------------- the built-in story
\* story.mainCharacters, by name, in declaration order.
mainCharacters == <<"Zoey", "Blaine", "Max", "Sophia", "Mother">>

\* story.scenes: the title and the charRefs.<name> the prompt embeds, in order.
scenes ==
  << [title |-> "The Passionate Reunion",    cref |-> <<"Zoey", "Blaine">>],
     [title |-> "The Necklace Confrontation", cref |-> <<"Zoey", "Blaine">>],
     [title |-> "Sofia's Discovery",          cref |-> <<"Sophia", "Blaine">>],
     [title |-> "The Secret Escape",          cref |-> <<"Blaine", "Max">>],
     [title |-> "The Pet Store Mission",      cref |-> <<"Blaine", "Max">>],
     [title |-> "Mother's Comfort",           cref |-> <<"Zoey", "Mother">>],
     [title |-> "The Shocking Discovery",     cref |-> <<"Zoey", "Blaine", "Max">>] >>

Range(s) == {s[i] : i \in 1..Len(s)}

\* The values of a map.
Range2(f) == {f[x] : x \in DOMAIN f}

CharacterNames == Range(mainCharacters)
SceneTitles == {scenes[i].title : i \in 1..Len(scenes)}

\* The uri the backend returns for an upscale: a new one for every generation.
Uri(name, r) == <<"uri", name, r>>

\* `${charRefs.X}` of a name with no entry renders as "undefined".
Undefined == <<"undefined", 0>>

NoRefs == [n \in {} |-> Undefined]

\* ProgressState with nothing completed (loadProgress's default).
EmptyProgress == [completedCharacters |-> <<>>, completedScenes |-> <<>>]

\* ----------------------------------------------------------------- ledger
\* JSON.stringify(progress, null, 2): the text of a ProgressState, as tokens.
stringify(p) ==
  <<"{", "completedCharacters", "[">> \o p.completedCharacters
    \o <<"]", "completedScenes", "[">> \o p.completedScenes \o <<"]", "}">>

\* Where the first array of a ledger text closes.
FirstClose(t) == CHOOSE i \in 1..Len(t) : t[i] = "]" /\ \A j \in 1..(i - 1) : t[j] # "]"

\* Whether JSON.parse accepts the text: a text cut short is not JSON.
Parses(t) ==
  /\ Len(t) >= 8
  /\ t[1] = "{"
  /\ t[Len(t)] = "}"
  /\ Cardinality({i \in 1..Len(t) : t[i] = "]"}) = 2

\* A parse that loses the second list.
parseCharactersOnly(t) ==
  [completedCharacters |-> SubSeq(t, 4, FirstClose(t) - 1),
   completedScenes |-> <<>>]

\* JSON.parse(data) of a text JSON.parse accepts.
parse(t) ==
  [completedCharacters |-> SubSeq(t, 4, FirstClose(t) - 1),
   completedScenes |-> SubSeq(t, FirstClose(t) + 3, Len(t) - 2)]

\* loadProgress: the parsed file, or the default when reading throws (no file)
\* or parsing throws (a file cut short by an unfinished write).
loadProgress ==
  IF ledgerFile.state # "absent" /\ Parses(ledgerFile.text)
  THEN parse(ledgerFile.text)
  ELSE EmptyProgress

\* Items a ProgressState lists.
Completed(p) == Range(p.completedCharacters) \cup Range(p.completedScenes)

\* ------------------------------------------------------- backend bookkeeping
\* An awaited backend call: issued, the caller suspended until it settles.
Issue(fl, op, item) == fl \cup {<<op, item>>}

\* The call was not awaited: the caller went on while it was still in flight.
SettleNotAwaited(fl, op, item) == fl

\* The awaited call has settled (resolved or thrown): it is no longer in flight.
Settle(fl, op, item) == fl \ {<<op, item>>}

\* An item that did not complete, and why: "null" (Imagine returned null),
\* "throws" (Imagine rejected), "upscale", "upscaleNull" (Upscale returned null
\* and the caller went on), "download" (of the item's image),
\* "variation" (download of one variation), "save", "mkdir", "metadata",
\* "compose" (the prompt could not be built).
Failure(item, cause) == [item |-> item, cause |-> cause]

Call(op, item, cref) == [op |-> op, item |-> item, cref |-> cref]

\* The items a log submits to the backend with `op`.
Items(l, op) == {l[i].item : i \in {j \in 1..Len(l) : l[j].op = op}}

\* --------------------------------------------------------------- main()
Ended == pc \in {"idle", "done", "rejected", "killed"}

\* The program is invoked, with fresh memory: main() of anime.ts, any number of
\* times over the same output/ directory; generate(scriptPath) of either
\* AnimeSceneGenerator (its client built by the constructor), which keeps
\* nothing from one run to the next, once, over an empty ./anime_output.
StartRun ==
  /\ Ended
  /\ run < MaxRuns
  /\ program # "storyboard" => pc = "idle"
  /\ run' = run + 1
  /\ pc' = CASE program = "storyboard" -> "ensureDirectories"
             [] program = "generator" -> "readScript"
             [] program = "sceneGenerator" -> "animeReadScript"
  /\ progress' = EmptyProgress
  /\ characterRefs' = NoRefs
  /\ ci' = 1
  /\ si' = 1
  /\ phase' = "characters"
  /\ upscaled' = Undefined
  /\ client' = IF program = "storyboard" THEN "none" ELSE "new"
  /\ closed' = FALSE
  /\ inflight' = {}
  /\ log' = <<>>
  /\ loaded' = EmptyProgress
  /\ prevFailed' = {f.item : f \in failed}
  /\ failed' = {}
  /\ savedAtStart' = saved
  /\ refsAtScenes' = NoRefs
  /\ fatal' = {}
  /\ prevEnd' = pc
  /\ imagine' = 0
  /\ vi' = 0
  /\ UNCHANGED <<program, ledgerFile, refsFile, artifacts, saved, saves, script,
                 variationFiles, mainFiles, metadataFiles>>

\* await ensureDirectories(): outside main's try, a failing mkdir rejects main().
EnsureDirectories ==
  /\ program = "storyboard"
  /\ pc = "ensureDirectories"
  /\ \E ok \in BOOLEAN :
       /\ pc' = IF ok THEN "loadProgress" ELSE "rejected"
       /\ fatal' = IF ok THEN fatal ELSE fatal \cup {"scaffold"}
  /\ UNCHANGED <<generatorVars, saves, prevEnd, program, run, ledgerFile, refsFile, artifacts, progress,
                 characterRefs, ci, si, phase, upscaled, client, closed,
                 inflight, log, loaded, failed, prevFailed, saved,
                 savedAtStart, refsAtScenes>>

\* const progress = await loadProgress(); then the client is constructed.
LoadProgress ==
  /\ program = "storyboard"
  /\ pc = "loadProgress"
  /\ progress' = loadProgress
  /\ loaded' = loadProgress
  /\ client' = "new"
  /\ pc' = "connect"
  /\ UNCHANGED <<fatal, generatorVars, saves, prevEnd, program, run, ledgerFile, refsFile, artifacts,
                 characterRefs, ci, si, phase, upscaled, closed,
                 inflight, log, failed, prevFailed, saved, savedAtStart,
                 refsAtScenes>>

\* A Connect whose failure is ignored: main goes on without a connection.
ConnectUnchecked ==
  /\ program = "storyboard"
  /\ pc = "connect"
  /\ \E ok \in BOOLEAN :
       /\ client' = IF ok THEN "connected" ELSE "failed"
       /\ pc' = "loadRefs"
       /\ fatal' = IF ok THEN fatal ELSE fatal \cup {"connect"}
  /\ UNCHANGED <<generatorVars, saves, prevEnd, program, run, ledgerFile,
                 refsFile, artifacts, progress, characterRefs, ci, si, phase,
                 upscaled, closed, inflight, log, loaded, failed, prevFailed,
                 saved, savedAtStart, refsAtScenes>>

\* await client.Connect(): outside main's try, a failure rejects main().
Connect ==
  /\ program = "storyboard"
  /\ pc = "connect"
  /\ \E ok \in BOOLEAN :
       /\ client' = IF ok THEN "connected" ELSE "failed"
       /\ pc' = IF ok THEN "loadRefs" ELSE "rejected"
       /\ fatal' = IF ok THEN fatal ELSE fatal \cup {"connect"}
  /\ UNCHANGED <<generatorVars, saves, prevEnd, program, run, ledgerFile, refsFile, artifacts, progress,
                 characterRefs, ci, si, phase, upscaled, closed, inflight,
                 log, loaded, failed, prevFailed, saved, savedAtStart,
                 refsAtScenes>>

\* Object.assign(characterRefs, existingRefs.uris), or "starting fresh" when the
\* file cannot be read or parsed.
LoadReferences ==
  /\ program = "storyboard"
  /\ pc = "loadRefs"
  /\ characterRefs' = IF refsFile.state = "valid" THEN refsFile.uris ELSE NoRefs
  /\ pc' = "characters"
  /\ UNCHANGED <<fatal, generatorVars, saves, prevEnd, program, run, ledgerFile, refsFile, artifacts, progress,
                 ci, si, phase, upscaled, client, closed, inflight, log,
                 loaded, failed, prevFailed, saved, savedAtStart,
                 refsAtScenes>>

\* ---- Generate remaining characters (the first for-loop of main)
\* !progress.completedCharacters.includes(character.name), negated.
CharacterCompleted(name) == name \in Range(progress.completedCharacters)

\* The loop is left after its first iteration.
CharactersDoneAfterFirst == ci > 1

\* The for-loop over story.mainCharacters has no character left.
CharactersDone == ci > Len(mainCharacters)

\* The item the running loop is at.
CurrentItem ==
  IF phase = "characters" THEN mainCharacters[ci] ELSE scenes[si].title

\* The first loop is over: main goes on to the second one.
CharactersExit ==
  /\ program = "storyboard"
  /\ pc = "characters"
  /\ CharactersDone
  /\ pc' = "scenes"
  /\ phase' = "scenes"
  /\ refsAtScenes' = characterRefs
  /\ UNCHANGED <<fatal, generatorVars, saves, prevEnd, program, run, ledgerFile, refsFile, artifacts, progress,
                 characterRefs, ci, si, upscaled, client, closed,
                 inflight, log, loaded, failed, prevFailed, saved,
                 savedAtStart>>

\* else-branch: "Skipping already generated character".
SkipCharacter ==
  /\ program = "storyboard"
  /\ pc = "characters"
  /\ ~CharactersDone
  /\ CharacterCompleted(mainCharacters[ci])
  /\ ci' = ci + 1
  /\ UNCHANGED <<fatal, generatorVars, saves, prevEnd, program, run, pc, ledgerFile, refsFile, artifacts, progress,
                 characterRefs, si, phase, upscaled, client, closed,
                 inflight, log, loaded, failed, prevFailed, saved,
                 savedAtStart, refsAtScenes>>

\* generateCharacter is entered: await client.Imagine(character.prompt, ...).
GenerateCharacter ==
  /\ program = "storyboard"
  /\ pc = "characters"
  /\ ~CharactersDone
  /\ ~CharacterCompleted(mainCharacters[ci])
  /\ inflight' = Issue(inflight, "Imagine", mainCharacters[ci])
  /\ log' = Append(log, Call("Imagine", mainCharacters[ci], <<>>))
  /\ pc' = "charImagine"
  /\ UNCHANGED <<fatal, generatorVars, saves, prevEnd, program, run, ledgerFile, refsFile, artifacts, progress,
                 characterRefs, ci, si, phase, upscaled, client, closed,
                 loaded, failed, prevFailed, saved, savedAtStart,
                 refsAtScenes>>

\* Imagine settles.  A result: await client.Upscale({index: 1, ...}).  null:
\* `throw new Error("Failed to generate ...")`; a rejection throws as well.
\* Both leave generateCharacter / generateScene and reach main's catch.
ImagineSettles ==
  /\ program = "storyboard"
  /\ pc \in {"charImagine", "sceneImagine"}
  /\ \E res \in {"result", "null", "throws"} :
       IF res = "result"
       THEN /\ inflight' = Issue(Settle(inflight, "Imagine", CurrentItem),
                                 "Upscale", CurrentItem)
            /\ log' = Append(log, Call("Upscale", CurrentItem, <<>>))
            /\ pc' = IF phase = "characters" THEN "charUpscale"
                                             ELSE "sceneUpscale"
            /\ failed' = failed
       ELSE /\ inflight' = Settle(inflight, "Imagine", CurrentItem)
            /\ log' = log
            /\ pc' = "catch"
            /\ failed' = failed \cup {Failure(CurrentItem, res)}
  /\ UNCHANGED <<fatal, generatorVars, saves, prevEnd, program, run, ledgerFile, refsFile, artifacts, progress,
                 characterRefs, ci, si, phase, upscaled, client, closed,
                 loaded, prevFailed, saved, savedAtStart, refsAtScenes>>

\* Upscale settles.  `if (!upscaled?.uri) throw ...`; otherwise downloadImage.
UpscaleSettles ==
  /\ program = "storyboard"
  /\ pc \in {"charUpscale", "sceneUpscale"}
  /\ inflight' = Settle(inflight, "Upscale", CurrentItem)
  /\ \E res \in {"uri", "nouri", "throws"} :
       IF res = "uri"
       THEN /\ upscaled' = Uri(CurrentItem, run)
            /\ pc' = IF phase = "characters" THEN "charDownload"
                                             ELSE "sceneDownload"
            /\ failed' = failed
       ELSE /\ upscaled' = upscaled
            /\ pc' = "catch"
            /\ failed' = failed \cup {Failure(CurrentItem, "upscale")}
  /\ UNCHANGED <<fatal, generatorVars, saves, prevEnd, program, run, ledgerFile, refsFile, artifacts, progress,
                 characterRefs, ci, si, phase, client, closed, log,
                 loaded, prevFailed, saved, savedAtStart, refsAtScenes>>

\* progress.completedCharacters.push(name) / completedScenes.push(title).
Push(p, item) ==
  IF phase = "characters"
  THEN [p EXCEPT !.completedCharacters = Append(@, item)]
  ELSE [p EXCEPT !.completedScenes = Append(@, item)]

\* await downloadImage(upscaled.uri, filepath): fetch and fs.writeFile, nothing
\* caught.  Then generateCharacter returns {uri, filepath} and main records the
\* uri, pushes the name and calls saveProgress (lines 453-456).
CharacterDownload ==
  /\ program = "storyboard"
  /\ pc = "charDownload"
  /\ \E ok \in BOOLEAN :
       IF ok
       THEN /\ artifacts' = artifacts \cup {CurrentItem}
            /\ characterRefs' =
                 [n \in DOMAIN characterRefs \cup {CurrentItem} |->
                    IF n = CurrentItem THEN upscaled ELSE characterRefs[n]]
            /\ progress' = Push(progress, CurrentItem)
            /\ pc' = "saveOpen"
            /\ failed' = failed
       ELSE /\ UNCHANGED <<artifacts, characterRefs, progress>>
            /\ pc' = "catch"
            /\ failed' = failed \cup {Failure(CurrentItem, "download")}
  /\ UNCHANGED <<fatal, generatorVars, saves, prevEnd, program, run, ledgerFile, refsFile, ci, si, phase, upscaled,
                 client, closed, inflight, log, loaded, prevFailed, saved,
                 savedAtStart, refsAtScenes>>

\* saveProgress, first half: fs.writeFile opens progress.json for writing, which
\* empties it.  A failing open leaves the file as it was and throws.
SaveProgressOpen ==
  /\ program = "storyboard"
  /\ pc = "saveOpen"
  /\ \E ok \in BOOLEAN :
       IF ok
       THEN /\ ledgerFile' = [state |-> "partial", text |-> <<>>]
            /\ pc' = "saveWrite"
            /\ failed' = failed
       ELSE /\ ledgerFile' = ledgerFile
            /\ pc' = "catch"
            /\ failed' = failed \cup {Failure(CurrentItem, "save")}
  /\ UNCHANGED <<fatal, generatorVars, saves, prevEnd, program, run, refsFile, artifacts, progress, characterRefs,
                 ci, si, phase, upscaled, client, closed, inflight, log,
                 loaded, prevFailed, saved, savedAtStart, refsAtScenes>>

\* saveProgress, second half: the JSON text is written.  A failing write leaves
\* the file cut short and throws.
SaveProgressWrite ==
  /\ program = "storyboard"
  /\ pc = "saveWrite"
  /\ \E ok \in BOOLEAN :
       IF ok
       THEN /\ ledgerFile' = [state |-> "valid", text |-> stringify(progress)]
            /\ saved' = saved \cup Completed(progress)
            /\ saves' = Append(saves, progress)
            /\ pc' = "delay"
            /\ failed' = failed
       ELSE /\ ledgerFile' = ledgerFile
            /\ saved' = saved
            /\ saves' = saves
            /\ pc' = "catch"
            /\ failed' = failed \cup {Failure(CurrentItem, "save")}
  /\ UNCHANGED <<fatal, generatorVars, prevEnd, program, run, refsFile, artifacts, progress, characterRefs,
                 ci, si, phase, upscaled, client, closed, inflight, log,
                 loaded, prevFailed, savedAtStart, refsAtScenes>>

\* await new Promise((resolve) => setTimeout(resolve, 5000)); next iteration.
Delay ==
  /\ program = "storyboard"
  /\ pc = "delay"
  /\ log' = Append(log, Call("Delay", CurrentItem, <<>>))
  /\ IF phase = "characters"
     THEN /\ ci' = ci + 1
          /\ si' = si
          /\ pc' = "characters"
     ELSE /\ ci' = ci
          /\ si' = si + 1
          /\ pc' = "scenes"
  /\ UNCHANGED <<fatal, generatorVars, saves, prevEnd, program, run, ledgerFile, refsFile, artifacts, progress,
                 characterRefs, phase, upscaled, client, closed, inflight,
                 loaded, failed, prevFailed, saved, savedAtStart,
                 refsAtScenes>>

\* ---- Generate remaining scenes (the second for-loop of main)
\* The title is looked up in the wrong list of the ledger.
SceneCompletedWrongList(title) == title \in Range(progress.completedCharacters)

\* !progress.completedScenes.includes(scene.title), negated.
SceneCompleted(title) == title \in Range(progress.completedScenes)

\* The for-loop over story.scenes has no scene left.
ScenesDone == si > Len(scenes)

\* scene.prompt(characterRefs): the template's `--cref ${charRefs.X} ...`, each
\* name replaced by its entry, "undefined" where characterRefs has none.
ScenePrompt(scene, refs) ==
  [i \in 1..Len(scene.cref) |->
     IF scene.cref[i] \in DOMAIN refs THEN refs[scene.cref[i]] ELSE Undefined]

\* else-branch: "Skipping already generated scene".
SkipScene ==
  /\ program = "storyboard"
  /\ pc = "scenes"
  /\ ~ScenesDone
  /\ SceneCompleted(scenes[si].title)
  /\ si' = si + 1
  /\ UNCHANGED <<fatal, generatorVars, saves, prevEnd, program, run, pc, ledgerFile, refsFile, artifacts, progress,
                 characterRefs, ci, phase, upscaled, client, closed,
                 inflight, log, loaded, failed, prevFailed, saved,
                 savedAtStart, refsAtScenes>>

\* generateScene is entered: the prompt is built from characterRefs and
\* submitted, await client.Imagine(prompt, ...).
GenerateScene ==
  /\ program = "storyboard"
  /\ pc = "scenes"
  /\ ~ScenesDone
  /\ ~SceneCompleted(scenes[si].title)
  /\ inflight' = Issue(inflight, "Imagine", scenes[si].title)
  /\ log' = Append(log, Call("Imagine", scenes[si].title,
                             ScenePrompt(scenes[si], characterRefs)))
  /\ pc' = "sceneImagine"
  /\ UNCHANGED <<fatal, generatorVars, saves, prevEnd, program, run, ledgerFile, refsFile, artifacts, progress,
                 characterRefs, ci, si, phase, upscaled, client, closed,
                 loaded, failed, prevFailed, saved, savedAtStart,
                 refsAtScenes>>

\* await downloadImage(upscaled.uri, filepath) in generateScene; then main
\* pushes the title and calls saveProgress (lines 470-472).
SceneDownload ==
  /\ program = "storyboard"
  /\ pc = "sceneDownload"
  /\ \E ok \in BOOLEAN :
       IF ok
       THEN /\ artifacts' = artifacts \cup {CurrentItem}
            /\ progress' = Push(progress, CurrentItem)
            /\ pc' = "saveOpen"
            /\ failed' = failed
       ELSE /\ UNCHANGED <<artifacts, progress>>
            /\ pc' = "catch"
            /\ failed' = failed \cup {Failure(CurrentItem, "download")}
  /\ UNCHANGED <<fatal, generatorVars, saves, prevEnd, program, run, ledgerFile, refsFile, characterRefs, ci, si,
                 phase, upscaled, client, closed, inflight, log, loaded,
                 prevFailed, saved, savedAtStart, refsAtScenes>>

\* "Save final character references": fs.writeFile of character_references.json
\* with {uris: characterRefs, files: characterFiles}.  A failing write throws
\* and leaves the file as it was or cut short.
WriteReferences ==
  /\ program = "storyboard"
  /\ pc = "scenes"
  /\ ScenesDone
  /\ \E res \in {"written", "untouched", "cut"} :
       /\ refsFile' = CASE res = "written" ->
                             [state |-> "valid", uris |-> characterRefs]
                        [] res = "untouched" -> refsFile
                        [] res = "cut" -> [state |-> "partial", uris |-> NoRefs]
       /\ pc' = IF res = "written" THEN "finally" ELSE "catch"
  /\ UNCHANGED <<fatal, generatorVars, saves, prevEnd, program, run, ledgerFile, artifacts, progress,
                 characterRefs, ci, si, phase, upscaled, client, closed,
                 inflight, log, loaded, failed, prevFailed, saved,
                 savedAtStart, refsAtScenes>>

\* catch (error) { console.error("Error generating storyboard:", error); }
Catch ==
  /\ program = "storyboard"
  /\ pc = "catch"
  /\ pc' = "finally"
  /\ UNCHANGED <<fatal, generatorVars, saves, prevEnd, program, run, ledgerFile, refsFile, artifacts, progress,
                 characterRefs, ci, si, phase, upscaled, client, closed,
                 inflight, log, loaded, failed, prevFailed, saved,
                 savedAtStart, refsAtScenes>>

\* finally { client.Close(); } and main() resolves.
Finally ==
  /\ program = "storyboard"
  /\ pc = "finally"
  /\ closed' = TRUE
  /\ pc' = "done"
  /\ UNCHANGED <<fatal, generatorVars, saves, prevEnd, program, run, ledgerFile, refsFile, artifacts, progress,
                 characterRefs, ci, si, phase, upscaled, client, inflight,
                 log, loaded, failed, prevFailed, saved, savedAtStart,
                 refsAtScenes>>

\* The process is interrupted (killed, power loss) at a suspension point: no
\* catch or finally block runs, the files stay as they are at that moment.
Interrupt ==
  /\ ~Ended
  /\ pc' = "killed"
  /\ UNCHANGED <<fatal, generatorVars, saves, prevEnd, program, run, ledgerFile, refsFile, artifacts, progress,
                 characterRefs, ci, si, phase, upscaled, client, closed,
                 inflight, log, loaded, failed, prevFailed, saved,
                 savedAtStart, refsAtScenes>>

\* =================================================== exampleScript.ts
\* The scripts generate() is given: AnimeScript, cut to the fields the pipeline
\* branches on.  "X" is a name no character of the script has.  A string is
\* the sequence of its pieces, <<>> the empty string; `cameraAngle?: string` is
\* a field a scene may lack.
Scripts ==
  { [characters |-> <<[name |-> "A"], [name |-> "B"]>>,
     scenes |-> <<[sceneNumber |-> 1, characters |-> <<"A", "B">>,
                   cameraAngle |-> <<"low angle">>]>>],
    [characters |-> <<[name |-> "A"]>>,
     scenes |-> <<[sceneNumber |-> 1, characters |-> <<"X", "A">>],
                  [sceneNumber |-> 2, characters |-> <<"A", "X">>,
                   cameraAngle |-> <<>>]>>],
    [characters |-> <<>>,
     scenes |-> <<[sceneNumber |-> 1, characters |-> <<>>,
                   cameraAngle |-> <<"wide shot">>],
                  [sceneNumber |-> 2, characters |-> <<"X">>],
                  [sceneNumber |-> 3, characters |-> <<>>,
                   cameraAngle |-> <<"close-up">>]>>] }

\* The storyboard reads no script: its story is built in.
NoScript == [characters |-> <<>>, scenes |-> <<>>]

\* Options of one Imagine result, at most (the backend sends a grid of four).
MaxOptions == 2

\* character.name.toLowerCase(), on the names of Scripts.
toLowerCase(name) ==
  CASE name = "A" -> "a"
    [] name = "B" -> "b"
    [] name = "X" -> "x"

\* scene.sceneNumber.toString().padStart(3, "0"), on the numbers of Scripts.
padStart3(n) ==
  CASE n = 1 -> "001"
    [] n = 2 -> "002"
    [] n = 3 -> "003"

\* outputName of the item the running loop is at: `character_<name>` or
\* `scene_<number>`.
outputName ==
  IF phase = "characters"
  THEN <<"character", toLowerCase(script.characters[ci].name)>>
  ELSE <<"scene", padStart3(script.scenes[si].sceneNumber)>>

\* imagine.options[i] of the result for `item` in this run.
Option(item, i) == [item |-> item, index |-> i, run |-> run]

\* const selectedVariation = imagine.options[0].
selectedVariation(item) == Option(item, 0)

\* The map is replaced by one holding the new entry only.
PutAlone(f, k, v) == [x \in {k} |-> v]

\* A file or map entry written: f with key k set to v.
Put(f, k, v) == [x \in DOMAIN f \cup {k} |-> IF x = k THEN v ELSE f[x]]

\* buildScenePrompt, "Add character references": for each name of
\* scene.characters with an entry in this.characterRefs, ` --cref <ref>`, and
\* ` --cw 1` after it when the name is the first of the list (index === 0).
RefDirectives(scene, refs) ==
  LET idx == SelectSeq([i \in 1..Len(scene.characters) |-> i],
                       LAMBDA i : scene.characters[i] \in DOMAIN refs)
  IN  [k \in 1..Len(idx) |->
         [cref |-> refs[scene.characters[idx[k]]], cw |-> idx[k] = 1]]

\* script.characters.find((c) => c.name === charName) finds a character.
Known(scr, charName) ==
  \E i \in 1..Len(scr.characters) : scr.characters[i].name = charName

\* buildScenePrompt, characterDetails: per name of scene.characters, the clause
\* `<name> (<description>, <stylePrompt>)` of the character found, or charName.
characterDetails(scene, scr) ==
  [i \in 1..Len(scene.characters) |->
     IF Known(scr, scene.characters[i])
     THEN <<scene.characters[i], "description", "stylePrompt">>
     ELSE <<scene.characters[i]>>]

\* A value of the prompt array: a string, or undefined.
str(t) == [defined |-> TRUE, text |-> t]

undefined == [defined |-> FALSE, text |-> <<>>]

\* scene.cameraAngle: the field, undefined when the scene has none.
cameraAngle(scene) ==
  IF "cameraAngle" \in DOMAIN scene THEN str(scene.cameraAngle) ELSE undefined

\* Array.prototype.join(sep) of strings: "" for an empty array.
RECURSIVE join(_, _)
join(parts, sep) ==
  IF Len(parts) = 0 THEN <<>>
  ELSE IF Len(parts) = 1 THEN parts[1]
  ELSE parts[1] \o <<sep>> \o join(Tail(parts), sep)

\* buildScenePrompt, the array the prompt is made of, before the filter.
promptParts(scene, scr) ==
  << str(<<"masterpiece, best quality">>),
     str(join(characterDetails(scene, scr), " and ")),
     str(<<"action">>),
     str(<<"in ", "setting">>),
     str(<<"mood">>),
     cameraAngle(scene),
     str(<<"artStyle">>),
     str(<<"detailed lighting, perfect composition">>),
     str(<<"--ar 16:9 --v 6 --style raw">>) >>

\* .filter(Boolean): undefined and the empty string are dropped.
filterBoolean(parts) == SelectSeq(parts, LAMBDA e : e.defined /\ e.text # <<>>)

\* .join(", "), kept as the tokens the separator stands between (join renders
\* undefined as the empty string).
joinTokens(parts) == [i \in 1..Len(parts) |-> parts[i].text]

\* The prompt handed to Imagine for a scene: its character clauses, the
\* directives appended to it, and the tokens ", " separates in its text.
Prompt(item, details, cref, tokens) ==
  [op |-> "Imagine", item |-> item, cref |-> cref, details |-> details,
   tokens |-> tokens]

\* generate(): await fs.readFile(scriptPath) and JSON.parse, inside the try.
ReadScript ==
  /\ program = "generator"
  /\ pc = "readScript"
  /\ \E ok \in BOOLEAN :
       /\ pc' = IF ok THEN "createDirs" ELSE "generateCatch"
       /\ fatal' = IF ok THEN fatal ELSE fatal \cup {"script"}
  /\ UNCHANGED <<generatorVars, storyboardVars, program, run, characterRefs,
                 ci, si, phase, client, closed, inflight, log, failed,
                 prevFailed, prevEnd, refsAtScenes>>

\* await this.createDirectoryStructure(): a failing mkdir throws into the catch.
CreateDirectoryStructure ==
  /\ program = "generator"
  /\ pc = "createDirs"
  /\ \E ok \in BOOLEAN :
       /\ pc' = IF ok THEN "generateConnect" ELSE "generateCatch"
       /\ fatal' = IF ok THEN fatal ELSE fatal \cup {"scaffold"}
  /\ UNCHANGED <<generatorVars, storyboardVars, program, run, characterRefs,
                 ci, si, phase, client, closed, inflight, log, failed,
                 prevFailed, prevEnd, refsAtScenes>>

\* await this.client.Connect(), inside the try.
GeneratorConnect ==
  /\ program = "generator"
  /\ pc = "generateConnect"
  /\ \E ok \in BOOLEAN :
       /\ client' = IF ok THEN "connected" ELSE "failed"
       /\ pc' = IF ok THEN "characterReferences" ELSE "generateCatch"
       /\ fatal' = IF ok THEN fatal ELSE fatal \cup {"connect"}
  /\ UNCHANGED <<generatorVars, storyboardVars, program, run, characterRefs,
                 ci, si, phase, closed, inflight, log, failed, prevFailed,
                 prevEnd, refsAtScenes>>

\* The for-loop of generateCharacterReferences has no character left.
CharacterReferencesDone == ci > Len(script.characters)

\* generateCharacterReferences, one iteration: the prompt is built and
\* generateAndSelectVariation awaits this.client.Imagine(prompt, ...).
GenerateCharacterReference ==
  /\ program = "generator"
  /\ pc = "characterReferences"
  /\ ~CharacterReferencesDone
  /\ inflight' = Issue(inflight, "Imagine", outputName)
  /\ log' = Append(log, Call("Imagine", outputName, <<>>))
  /\ pc' = "imagine"
  /\ UNCHANGED <<fatal, generatorVars, storyboardVars, program, run, characterRefs,
                 ci, si, phase, client, closed, failed, prevFailed,
                 prevEnd, refsAtScenes>>

\* generateCharacterReferences returns; generate() calls generateScenes.
CharacterReferencesExit ==
  /\ program = "generator"
  /\ pc = "characterReferences"
  /\ CharacterReferencesDone
  /\ pc' = "generateScenes"
  /\ phase' = "scenes"
  /\ refsAtScenes' = characterRefs
  /\ UNCHANGED <<fatal, generatorVars, storyboardVars, program, run, characterRefs,
                 ci, si, client, closed, inflight, log, failed,
                 prevFailed, prevEnd>>

\* generateScenes, one iteration: buildScenePrompt, then
\* generateAndSelectVariation awaits this.client.Imagine(prompt, ...).
GenerateSceneImage ==
  /\ program = "generator"
  /\ pc = "generateScenes"
  /\ si <= Len(script.scenes)
  /\ inflight' = Issue(inflight, "Imagine", outputName)
  /\ log' = Append(log, Prompt(outputName,
                               characterDetails(script.scenes[si], script),
                               RefDirectives(script.scenes[si], characterRefs),
                               joinTokens(filterBoolean(
                                 promptParts(script.scenes[si], script)))))
  /\ pc' = "imagine"
  /\ UNCHANGED <<fatal, generatorVars, storyboardVars, program, run, characterRefs,
                 ci, si, phase, client, closed, failed, prevFailed,
                 prevEnd, refsAtScenes>>

\* Imagine settles.  `if (!imagine?.options || imagine.options.length === 0)
\* return null`; a rejection is caught and returns null as well.  Otherwise
\* await fs.mkdir(variationsDir).
GeneratorImagineSettles ==
  /\ program = "generator"
  /\ pc = "imagine"
  /\ inflight' = Settle(inflight, "Imagine", outputName)
  /\ \/ \E n \in 1..MaxOptions :
          /\ imagine' = n
          /\ pc' = "mkdirVariations"
          /\ failed' = failed
     \/ \E res \in {"null", "throws", "empty"} :
          /\ imagine' = 0
          /\ pc' = "delay"
          /\ failed' = failed \cup {Failure(outputName, res)}
  /\ vi' = 0
  /\ UNCHANGED <<fatal, storyboardVars, script, variationFiles, mainFiles,
                 metadataFiles, program, run, characterRefs, ci, si, phase,
                 client, closed, log, prevFailed, prevEnd, refsAtScenes>>

\* await fs.mkdir(variationsDir, {recursive: true}): a failure is caught by
\* generateAndSelectVariation, which returns null.
MakeVariationsDir ==
  /\ program = "generator"
  /\ pc = "mkdirVariations"
  /\ \E ok \in BOOLEAN :
       /\ pc' = IF ok THEN "variations" ELSE "delay"
       /\ failed' = IF ok THEN failed
                          ELSE failed \cup {Failure(outputName, "mkdir")}
  /\ UNCHANGED <<fatal, generatorVars, storyboardVars, program, run, characterRefs,
                 ci, si, phase, client, closed, inflight, log, prevFailed,
                 prevEnd, refsAtScenes>>

\* "Save all variations", one iteration: await this.downloadImage(variation.uri,
\* variation_<i+1>.png).  downloadImage catches its own errors and only logs
\* them: a failed download writes no file and the loop goes on.
DownloadVariation ==
  /\ program = "generator"
  /\ pc = "variations"
  /\ vi < imagine
  /\ \E ok \in BOOLEAN :
       /\ variationFiles' =
            IF ok THEN Put(variationFiles, <<outputName, vi + 1>>,
                           Option(outputName, vi))
                  ELSE variationFiles
       /\ failed' = IF ok THEN failed
                          ELSE failed \cup {Failure(outputName, "variation")}
  /\ vi' = vi + 1
  /\ UNCHANGED <<fatal, storyboardVars, script, imagine, mainFiles, metadataFiles,
                 program, run, pc, characterRefs, ci, si, phase, client,
                 closed, inflight, log, prevFailed, prevEnd, refsAtScenes>>

\* "Save the selected variation to main directory": await
\* this.downloadImage(selectedVariation.uri, mainPath), errors swallowed too.
DownloadSelected ==
  /\ program = "generator"
  /\ pc = "variations"
  /\ vi >= imagine
  /\ \E ok \in BOOLEAN :
       /\ mainFiles' = IF ok THEN Put(mainFiles, outputName,
                                      selectedVariation(outputName))
                             ELSE mainFiles
       /\ failed' = IF ok THEN failed
                          ELSE failed \cup {Failure(outputName, "download")}
  /\ pc' = "metadata"
  /\ UNCHANGED <<fatal, storyboardVars, script, imagine, vi, variationFiles,
                 metadataFiles, program, run, characterRefs, ci, si, phase,
                 client, closed, inflight, log, prevFailed, prevEnd,
                 refsAtScenes>>

\* The entry is written whatever generateAndSelectVariation returned.
SetReferenceAlways(refs, name, response) ==
  Put(refs, name, IF response # <<>> THEN response[1] ELSE Undefined)

\* generateCharacterReferences: `if (response?.uri)
\* this.characterRefs.set(character.name, response.uri)`; response is <<uri>>,
\* or <<>> for null.
SetReference(refs, name, response) ==
  IF response # <<>> THEN Put(refs, name, response[1]) ELSE refs

\* await fs.writeFile(metadataPath, ...); return {...imagine, uri:
\* selectedVariation.uri}.  A failing write is caught and returns null.  Back in
\* generateCharacterReferences: `if (response?.uri)
\* this.characterRefs.set(character.name, response.uri)`.
WriteMetadata ==
  /\ program = "generator"
  /\ pc = "metadata"
  /\ \E ok \in BOOLEAN :
       IF ok
       THEN /\ metadataFiles' =
                 Put(metadataFiles, outputName,
                     [selectedVariation |-> selectedVariation(outputName),
                      allVariations |-> imagine])
            /\ characterRefs' =
                 IF phase = "characters"
                 THEN SetReference(characterRefs, script.characters[ci].name,
                                   <<selectedVariation(outputName)>>)
                 ELSE characterRefs
            /\ failed' = failed
       ELSE /\ metadataFiles' = metadataFiles
            /\ characterRefs' =
                 IF phase = "characters"
                 THEN SetReference(characterRefs, script.characters[ci].name,
                                   <<>>)
                 ELSE characterRefs
            /\ failed' = failed \cup {Failure(outputName, "metadata")}
  /\ pc' = "delay"
  /\ UNCHANGED <<fatal, storyboardVars, script, imagine, vi, variationFiles,
                 mainFiles, program, run, ci, si, phase, client, closed,
                 inflight, log, prevFailed, prevEnd, refsAtScenes>>

\* "Add delay between generations": await setTimeout 2000, after every item.
GeneratorDelay ==
  /\ program = "generator"
  /\ pc = "delay"
  /\ log' = Append(log, Call("Delay", outputName, <<>>))
  /\ IF phase = "characters"
     THEN /\ ci' = ci + 1
          /\ si' = si
          /\ pc' = "characterReferences"
     ELSE /\ ci' = ci
          /\ si' = si + 1
          /\ pc' = "generateScenes"
  /\ UNCHANGED <<fatal, generatorVars, storyboardVars, program, run, characterRefs,
                 phase, client, closed, inflight, failed, prevFailed,
                 prevEnd, refsAtScenes>>

\* generateScenes returns; this.client.Close() ends the try block.
GeneratorClose ==
  /\ program = "generator"
  /\ pc = "generateScenes"
  /\ si > Len(script.scenes)
  /\ closed' = TRUE
  /\ pc' = "done"
  /\ UNCHANGED <<fatal, generatorVars, storyboardVars, program, run, characterRefs,
                 ci, si, phase, client, inflight, log, failed, prevFailed,
                 prevEnd, refsAtScenes>>

\* catch (error) { console.error(...); this.client.Close(); }
GeneratorCatch ==
  /\ program = "generator"
  /\ pc = "generateCatch"
  /\ closed' = TRUE
  /\ pc' = "done"
  /\ UNCHANGED <<fatal, generatorVars, storyboardVars, program, run, characterRefs,
                 ci, si, phase, client, inflight, log, failed, prevFailed,
                 prevEnd, refsAtScenes>>

\* =================================== anime.ts, class AnimeSceneGenerator
\* What generate() of this class never writes.
animeUnused ==
  <<program, run, script, ledgerFile, refsFile, artifacts, progress, loaded,
    saved, savedAtStart, saves, prevFailed, prevEnd, imagine, vi,
    variationFiles, mainFiles>>

\* buildScenePrompt, characterPrompts: per name of scene.characters, the clause
\* `<name> <description>` of the character found, or charName.
characterPrompts(scene, scr) ==
  [i \in 1..Len(scene.characters) |->
     IF Known(scr, scene.characters[i])
     THEN <<scene.characters[i], "description">>
     ELSE <<scene.characters[i]>>]

\* `${characterPrompts}`, the clauses joined with ", ": each clause is a token
\* of the text, and with no clause the text there is empty.
joinedClauses(clauses) == IF Len(clauses) = 0 THEN << <<>> >> ELSE clauses

\* `${scene.cameraAngle || ""}`.
cameraAngleOrEmpty(scene) ==
  IF cameraAngle(scene).defined /\ cameraAngle(scene).text # <<>>
  THEN cameraAngle(scene).text
  ELSE <<>>

\* buildScenePrompt, "Build the base prompt": the template literal, as the
\* tokens its ", " separate.
basePrompt(scene, scr) ==
  << <<"action">>, <<"setting">>, <<"mood">> >>
    \o joinedClauses(characterPrompts(scene, scr))
    \o << cameraAngleOrEmpty(scene), <<"artStyle">>, <<"highly detailed">>,
          <<"professional lighting --ar 16:9 --v 6 --style raw">> >>

\* generateScenes: scene.characters.map((n) => characterRefs.get(n))
\* .filter((ref) => ref !== undefined).
relevantRefs(scene, refs) ==
  LET idx == SelectSeq([i \in 1..Len(scene.characters) |-> i],
                       LAMBDA i : scene.characters[i] \in DOMAIN refs)
  IN  [k \in 1..Len(idx) |-> refs[scene.characters[idx[k]]]]

\* buildScenePrompt: characterRefs.forEach((ref) => prompt += ` --cref ${ref}`),
\* no other directive with it.
crefDirectives(refs) == [k \in 1..Len(refs) |-> [cref |-> refs[k], cw |-> FALSE]]

\* buildScenePrompt, `if (scene.sceneNumber > 1)`: fs.existsSync(firstSceneRef)
\* is called, and fs is "fs/promises", which has no existsSync: a TypeError.
existsSyncThrows(scene) == scene.sceneNumber > 1

\* imagePath, `${outputPath}.png`: what generateImage returns on success.
imagePath(item) == <<"path", item>>

\* generate(): await fs.readFile(scriptPath) and JSON.parse, inside the try.
AnimeReadScript ==
  /\ program = "sceneGenerator"
  /\ pc = "animeReadScript"
  /\ \E ok \in BOOLEAN :
       /\ pc' = IF ok THEN "animeCreateDir" ELSE "animeCatch"
       /\ fatal' = IF ok THEN fatal ELSE fatal \cup {"script"}
  /\ UNCHANGED <<animeUnused, characterRefs, ci, si, phase, upscaled, client,
                 closed, inflight, log, failed, refsAtScenes, metadataFiles>>

\* await this.createOutputDirectory(): a failing mkdir is caught and logged
\* there, generate() goes on.
CreateOutputDirectory ==
  /\ program = "sceneGenerator"
  /\ pc = "animeCreateDir"
  /\ \E ok \in BOOLEAN : fatal' = IF ok THEN fatal ELSE fatal \cup {"scaffold"}
  /\ pc' = "animeConnect"
  /\ UNCHANGED <<animeUnused, characterRefs, ci, si, phase, upscaled, client,
                 closed, inflight, log, failed, refsAtScenes, metadataFiles>>

\* await this.client.Connect(), inside the try.
AnimeConnect ==
  /\ program = "sceneGenerator"
  /\ pc = "animeConnect"
  /\ \E ok \in BOOLEAN :
       /\ client' = IF ok THEN "connected" ELSE "failed"
       /\ pc' = IF ok THEN "animeCharacters" ELSE "animeCatch"
       /\ fatal' = IF ok THEN fatal ELSE fatal \cup {"connect"}
  /\ UNCHANGED <<animeUnused, characterRefs, ci, si, phase, upscaled, closed,
                 inflight, log, failed, refsAtScenes, metadataFiles>>

\* generateCharacterReferences, one iteration: buildCharacterPrompt, then
\* generateImage awaits this.client.Imagine(prompt, ...).
AnimeGenerateCharacterReference ==
  /\ program = "sceneGenerator"
  /\ pc = "animeCharacters"
  /\ ci <= Len(script.characters)
  /\ inflight' = Issue(inflight, "Imagine", outputName)
  /\ log' = Append(log, Call("Imagine", outputName, <<>>))
  /\ pc' = "animeImagine"
  /\ UNCHANGED <<animeUnused, characterRefs, ci, si, phase, upscaled, client,
                 closed, failed, refsAtScenes, fatal, metadataFiles>>

\* generateCharacterReferences returns the map; generate() calls generateScenes.
AnimeCharacterReferencesExit ==
  /\ program = "sceneGenerator"
  /\ pc = "animeCharacters"
  /\ ci > Len(script.characters)
  /\ pc' = "animeScenes"
  /\ phase' = "scenes"
  /\ refsAtScenes' = characterRefs
  /\ UNCHANGED <<animeUnused, characterRefs, ci, si, upscaled, client, closed,
                 inflight, log, failed, fatal, metadataFiles>>

\* generateScenes, one iteration: relevantRefs, buildScenePrompt, then
\* generateImage awaits this.client.Imagine(prompt, ...).  buildScenePrompt is
\* called outside generateImage's try: when it throws, generateScenes and
\* generate() are left for generate()'s catch.
AnimeGenerateScene ==
  /\ program = "sceneGenerator"
  /\ pc = "animeScenes"
  /\ si <= Len(script.scenes)
  /\ IF existsSyncThrows(script.scenes[si])
     THEN /\ pc' = "animeCatch"
          /\ failed' = failed \cup {Failure(outputName, "compose")}
          /\ UNCHANGED <<inflight, log>>
     ELSE /\ inflight' = Issue(inflight, "Imagine", outputName)
          /\ log' = Append(log,
               Prompt(outputName, characterPrompts(script.scenes[si], script),
                      crefDirectives(relevantRefs(script.scenes[si],
                                                  characterRefs)),
                      basePrompt(script.scenes[si], script)))
          /\ pc' = "animeImagine"
          /\ failed' = failed
  /\ UNCHANGED <<animeUnused, characterRefs, ci, si, phase, upscaled, client,
                 closed, refsAtScenes, fatal, metadataFiles>>

\* A loop that takes the same item again.
AnimeReturnSameItem ==
  /\ ci' = ci
  /\ pc' = IF phase = "characters" THEN "animeCharacters" ELSE "animeDelay"

\* generateImage has returned to its loop: generateCharacterReferences goes to
\* its next character at once, generateScenes to its delay.
AnimeReturn ==
  /\ ci' = IF phase = "characters" THEN ci + 1 ELSE ci
  /\ pc' = IF phase = "characters" THEN "animeCharacters" ELSE "animeDelay"

\* Imagine settles.  `if (!imagine) return null`; a rejection is caught and
\* returns null as well.  Otherwise await this.client.Upscale({index: 1, ...}).
AnimeImagineSettles ==
  /\ program = "sceneGenerator"
  /\ pc = "animeImagine"
  /\ \E res \in {"result", "null", "throws"} :
       IF res = "result"
       THEN /\ inflight' = Issue(Settle(inflight, "Imagine", outputName),
                                 "Upscale", outputName)
            /\ log' = Append(log, Call("Upscale", outputName, <<>>))
            /\ pc' = "animeUpscale"
            /\ UNCHANGED <<ci, failed>>
       ELSE /\ inflight' = Settle(inflight, "Imagine", outputName)
            /\ log' = log
            /\ failed' = failed \cup {Failure(outputName, res)}
            /\ AnimeReturn
  /\ UNCHANGED <<animeUnused, characterRefs, si, phase, upscaled, client,
                 closed, refsAtScenes, fatal, metadataFiles>>

\* Upscale settles: with a result or with null, generateImage goes on to write
\* the metadata (`upscaleId: upscale?.id`); a rejection is caught, null returned.
AnimeUpscaleSettles ==
  /\ program = "sceneGenerator"
  /\ pc = "animeUpscale"
  /\ inflight' = Settle(inflight, "Upscale", outputName)
  /\ \E res \in {"result", "null", "throws"} :
       CASE res = "result" ->
              /\ upscaled' = Uri(outputName, run)
              /\ pc' = "animeMetadata"
              /\ UNCHANGED <<ci, failed>>
         [] res = "null" ->
              /\ upscaled' = Undefined
              /\ pc' = "animeMetadata"
              /\ failed' = failed \cup {Failure(outputName, "upscaleNull")}
              /\ ci' = ci
         [] res = "throws" ->
              /\ upscaled' = upscaled
              /\ failed' = failed \cup {Failure(outputName, "upscale")}
              /\ AnimeReturn
  /\ UNCHANGED <<animeUnused, characterRefs, si, phase, client, closed, log,
                 refsAtScenes, fatal, metadataFiles>>

\* await fs.writeFile(`${outputPath}.json`, metadata); return
\* `${outputPath}.png`.  A failing write is caught and returns null.  Back in
\* generateCharacterReferences: `if (imagePath) characterRefs.set(name,
\* imagePath)`.  No image is fetched or written.
AnimeWriteMetadata ==
  /\ program = "sceneGenerator"
  /\ pc = "animeMetadata"
  /\ \E ok \in BOOLEAN :
       IF ok
       THEN /\ metadataFiles' =
                 Put(metadataFiles, outputName, [upscaleId |-> upscaled])
            /\ characterRefs' =
                 IF phase = "characters"
                 THEN Put(characterRefs, script.characters[ci].name,
                          imagePath(outputName))
                 ELSE characterRefs
            /\ failed' = failed
       ELSE /\ UNCHANGED <<metadataFiles, characterRefs>>
            /\ failed' = failed \cup {Failure(outputName, "metadata")}
  /\ AnimeReturn
  /\ UNCHANGED <<animeUnused, si, phase, upscaled, client, closed, inflight,
                 log, refsAtScenes, fatal>>

\* generateScenes: "Wait a bit between generations", await setTimeout 2000.
AnimeDelay ==
  /\ program = "sceneGenerator"
  /\ pc = "animeDelay"
  /\ log' = Append(log, Call("Delay", outputName, <<>>))
  /\ si' = si + 1
  /\ pc' = "animeScenes"
  /\ UNCHANGED <<animeUnused, characterRefs, ci, phase, upscaled, client,
                 closed, inflight, failed, refsAtScenes, fatal, metadataFiles>>

\* generateScenes returns; this.client.Close() ends the try block.
AnimeClose ==
  /\ program = "sceneGenerator"
  /\ pc = "animeScenes"
  /\ si > Len(script.scenes)
  /\ closed' = TRUE
  /\ pc' = "done"
  /\ UNCHANGED <<animeUnused, characterRefs, ci, si, phase, upscaled, client,
                 inflight, log, failed, refsAtScenes, fatal, metadataFiles>>

\* catch (error) { console.error(...); this.client.Close(); }
AnimeCatch ==
  /\ program = "sceneGenerator"
  /\ pc = "animeCatch"
  /\ closed' = TRUE
  /\ pc' = "done"
  /\ UNCHANGED <<animeUnused, characterRefs, ci, si, phase, upscaled, client,
                 inflight, log, failed, refsAtScenes, fatal, metadataFiles>>

\* ------------------------------------------------------------ specification
Init ==
  /\ program \in {"storyboard", "generator", "sceneGenerator"}
  /\ run = 0
  /\ pc = "idle"
  /\ ledgerFile = [state |-> "absent", text |-> <<>>]
  /\ refsFile = [state |-> "absent", uris |-> NoRefs]
  /\ artifacts = {}
  /\ progress = EmptyProgress
  /\ characterRefs = NoRefs
  /\ ci = 1
  /\ si = 1
  /\ phase = "characters"
  /\ upscaled = Undefined
  /\ client = "none"
  /\ closed = FALSE
  /\ inflight = {}
  /\ log = <<>>
  /\ loaded = EmptyProgress
  /\ failed = {}
  /\ prevFailed = {}
  /\ saved = {}
  /\ savedAtStart = {}
  /\ saves = <<>>
  /\ refsAtScenes = NoRefs
  /\ fatal = {}
  /\ prevEnd = "idle"
  /\ script \in IF program = "storyboard" THEN {NoScript} ELSE Scripts
  /\ imagine = 0
  /\ vi = 0
  /\ variationFiles = NoRefs
  /\ mainFiles = NoRefs
  /\ metadataFiles = NoRefs

Next ==
  \/ StartRun
  \/ EnsureDirectories
  \/ LoadProgress
  \/ Connect
  \/ LoadReferences
  \/ CharactersExit
  \/ SkipCharacter
  \/ GenerateCharacter
  \/ ImagineSettles
  \/ UpscaleSettles
  \/ CharacterDownload
  \/ SaveProgressOpen
  \/ SaveProgressWrite
  \/ Delay
  \/ SkipScene
  \/ GenerateScene
  \/ SceneDownload
  \/ WriteReferences
  \/ Catch
  \/ Finally
  \/ Interrupt
  \/ ReadScript
  \/ CreateDirectoryStructure
  \/ GeneratorConnect
  \/ GenerateCharacterReference
  \/ CharacterReferencesExit
  \/ GenerateSceneImage
  \/ GeneratorImagineSettles
  \/ MakeVariationsDir
  \/ DownloadVariation
  \/ DownloadSelected
  \/ WriteMetadata
  \/ GeneratorDelay
  \/ GeneratorClose
  \/ GeneratorCatch
  \/ AnimeReadScript
  \/ CreateOutputDirectory
  \/ AnimeConnect
  \/ AnimeGenerateCharacterReference
  \/ AnimeCharacterReferencesExit
  \/ AnimeGenerateScene
  \/ AnimeImagineSettles
  \/ AnimeUpscaleSettles
  \/ AnimeWriteMetadata
  \/ AnimeDelay
  \/ AnimeClose
  \/ AnimeCatch

Spec == Init /\ [][Next]_vars

\* ==================================================================
\* Properties
\* ==================================================================
AllItems == CharacterNames \cup SceneTitles

\* The positions of a log that are backend submissions.
BackendCalls(l) == {i \in 1..Len(l) : l[i].op \in {"Imagine", "Upscale"}}

\* The items of the running program, by the name its log gives them.
CharacterItems ==
  IF program = "storyboard" THEN CharacterNames
  ELSE {<<"character", toLowerCase(script.characters[i].name)>> :
          i \in 1..Len(script.characters)}

SceneItems ==
  IF program = "storyboard" THEN SceneTitles
  ELSE {<<"scene", padStart3(script.scenes[i].sceneNumber)>> :
          i \in 1..Len(script.scenes)}

\* The positions of the log that submit a scene prompt.
SceneCalls == {i \in 1..Len(log) : log[i].op = "Imagine" /\ log[i].item \in SceneItems}

\* The reference handles a submitted scene prompt embeds.
EmbeddedRefs(call) ==
  IF program = "storyboard"
  THEN Range(call.cref) \ {Undefined}
  ELSE {call.cref[k].cref : k \in 1..Len(call.cref)}

\* ---------------------------------------------------------------- C1
\* C1 (resume): no Imagine and no Upscale is issued in a run for an item whose
\* name is in the ledger loaded at the start of that run; a run whose loaded
\* ledger lists every character and every scene issues no backend submission.
ResumeSkipsLedgerItems ==
  program = "storyboard" =>
    /\ Completed(loaded) \cap
         (Items(log, "Imagine") \cup Items(log, "Upscale")) = {}
    /\ (AllItems \subseteq Completed(loaded)) => BackendCalls(log) = {}

\* A run over a full ledger has gone through both loops and ended.
ResumeWitness ==
  /\ program = "storyboard"
  /\ pc = "done"
  /\ AllItems \subseteq Completed(loaded)
  /\ ci > Len(mainCharacters)
  /\ si > Len(scenes)

\* ---------------------------------------------------------------- C2
\* C2 (ledger after artifact and metadata): every name the ledger file lists
\* has its image on disk, and every character it lists has its metadata (uri
\* and file path, the entry of character_references.json) on disk.
LedgerOnlyAfterArtifactAndMetadata ==
  (program = "storyboard" /\ ledgerFile.state = "valid") =>
    /\ \A n \in Completed(parse(ledgerFile.text)) : n \in artifacts
    /\ \A n \in Range(parse(ledgerFile.text).completedCharacters) :
         refsFile.state = "valid" /\ n \in DOMAIN refsFile.uris

\* ---------------------------------------------------------------- C3
\* C3 (partial-failure containment, its first half): when Imagine returned
\* null for an item of a run that has ended, every later item of its list was
\* still submitted in that run (or was skipped as complete).
PartialFailureContained ==
  (program = "storyboard" /\ pc = "done") =>
    \A f \in failed :
      f.cause = "null" =>
        /\ phase = "characters" =>
             \A j \in (ci + 1)..Len(mainCharacters) :
               mainCharacters[j] \in
                 Items(log, "Imagine") \cup Completed(loaded)
        /\ phase = "scenes" =>
             \A j \in (si + 1)..Len(scenes) :
               scenes[j].title \in
                 Items(log, "Imagine") \cup Completed(loaded)

\* ---------------------------------------------------------------- C4
\* C4 (phase ordering): a scene prompt is submitted only when every character
\* has been attempted or skipped, no character is submitted after a scene, and
\* every reference a scene prompt embeds was in the reference map when the
\* scene phase began.
PhaseOrdering ==
  /\ SceneCalls # {} =>
       CharacterItems \subseteq Items(log, "Imagine") \cup Completed(loaded)
  /\ \A i \in SceneCalls : \A j \in i..Len(log) :
       log[j].item \notin CharacterItems
  /\ \A i \in SceneCalls :
       EmbeddedRefs(log[i]) \subseteq Range2(refsAtScenes)

\* A scene prompt with a reference was submitted in a run that generated a
\* character and skipped another one.
PhaseOrderingWitness ==
  /\ program = "storyboard"
  /\ \E i \in SceneCalls : EmbeddedRefs(log[i]) # {}
  /\ Items(log, "Imagine") \cap CharacterNames # {}
  /\ Completed(loaded) \cap CharacterNames # {}

\* ---------------------------------------------------------------- C5
\* C5 (guaranteed cleanup): a run that has ended, by completion or by an error,
\* has called Close on the client it constructed.
RunEndsClosed == (pc \in {"done", "rejected"} /\ client # "none") => closed

\* ---------------------------------------------------------------- C6
\* C6 (item failure is retried): an item failure does not reject the run, the
\* failed item is not in the ledger file when the run has ended, and the run
\* after it submits the item again.
FailedItemRetriedNextRun ==
  program = "storyboard" =>
    /\ failed # {} => pc # "rejected"
    /\ (pc = "done" /\ ledgerFile.state = "valid") =>
         \A f \in failed : f.item \notin Completed(parse(ledgerFile.text))
    /\ (pc = "done" /\ prevEnd = "done") =>
         prevFailed \subseteq Items(log, "Imagine")

\* ---------------------------------------------------------------- C7
\* C7 (recoverability, its safety half): no run submits an item whose ledger
\* save had completed before that run started.
NoCompletedItemRegenerated ==
  program = "storyboard" => Items(log, "Imagine") \cap savedAtStart = {}

\* ---------------------------------------------------------------- C8
\* C8 (sequential submission): at most one backend operation is in flight.
SequentialSubmission == Cardinality(inflight) <= 1

\* An Upscale is in flight after an earlier item went through both operations.
SequentialWitness ==
  /\ \E o \in inflight : o[1] = "Upscale"
  /\ Len(log) >= 4

\* ---------------------------------------------------------------- C9
\* C9 (crash containment): after an interrupted run, the ledger loadProgress
\* returns to the next run lists every item whose save had completed.
LedgerSurvivesInterruption ==
  (program = "storyboard" /\ prevEnd = "killed" /\ pc = "connect") =>
    savedAtStart \subseteq Completed(loaded)

\* ---------------------------------------------------------------- C10
\* C10 (variation selection): once the canonical image of an item is written,
\* every option of its result has its file in the variations area; the
\* canonical image and the metadata's selected variation are option 0, and so
\* is the reference recorded for a character.
VariationSelection ==
  program = "generator" =>
    /\ (pc = "metadata" /\ outputName \in DOMAIN mainFiles) =>
         /\ \A i \in 1..imagine : <<outputName, i>> \in DOMAIN variationFiles
         /\ mainFiles[outputName] = Option(outputName, 0)
    /\ \A item \in DOMAIN metadataFiles :
         metadataFiles[item].selectedVariation = Option(item, 0)
    /\ \A i \in 1..Len(script.characters) :
         script.characters[i].name \in DOMAIN characterRefs =>
           characterRefs[script.characters[i].name] =
             Option(<<"character", toLowerCase(script.characters[i].name)>>, 0)

\* ---------------------------------------------------------------- C11
\* The names under which the reference map would hold the handle of an item.
RefKeys(item) ==
  IF program = "storyboard" THEN {item}
  ELSE {script.characters[i].name : i \in
          {j \in 1..Len(script.characters) :
             item = <<"character", toLowerCase(script.characters[j].name)>>}}

\* Every item the running program declares.
DeclaredItems == CharacterItems \cup SceneItems

\* C11 (item failure on persistence or upscale failure): an item whose image
\* download or metadata write failed, or whose Upscale gave no usable handle,
\* has no handle in the reference map and is not in the ledger, and the run
\* that ends after it has submitted every other item.
PersistenceFailureIsItemFailure ==
  \A f \in failed :
    f.cause \in {"download", "metadata", "upscale", "upscaleNull"} =>
      /\ RefKeys(f.item) \cap DOMAIN characterRefs = {}
      /\ (program = "storyboard" /\ ledgerFile.state = "valid") =>
           f.item \notin Completed(parse(ledgerFile.text))
      /\ pc = "done" =>
           DeclaredItems \subseteq Items(log, "Imagine") \cup Completed(loaded)

\* ---------------------------------------------------------------- C12
\* C12 (fatal conditions abort the run): in a run where scaffolding the output
\* directories failed or the backend connection could not be established, no
\* prompt is submitted to the backend.
FatalAbortsRun ==
  fatal \cap {"scaffold", "connect"} # {} => BackendCalls(log) = {}

\* ---------------------------------------------------------------- C13
\* The scene of the script a submission is for.
SceneOf(item) ==
  CHOOSE sc \in Range(script.scenes) :
    item = <<"scene", padStart3(sc.sceneNumber)>>

\* The handles of the reference directives of a submitted prompt, in order.
Handles(call) == [k \in 1..Len(call.cref) |-> call.cref[k].cref]

\* C13 (reference injection): a submitted scene prompt has one reference
\* directive per character of the scene with a resolved handle, in the order of
\* the scene's character list, and when it has a reference directive, the first
\* one carries the emphasis directive and no other one does.
ReferenceInjection ==
  program # "storyboard" =>
    \A i \in SceneCalls :
      /\ Handles(log[i]) = relevantRefs(SceneOf(log[i].item), refsAtScenes)
      /\ \A k \in 1..Len(log[i].cref) : log[i].cref[k].cw <=> (k = 1)

\* ---------------------------------------------------------------- C14
\* C14 (missing references degrade, never fail): building the prompt of a scene
\* never throws, whatever the scene number and whichever of its characters have
\* a handle; a character without a handle adds nothing to the submitted prompt
\* (no directive, no "undefined" handle), and the rest of the prompt is the
\* same as with no reference at all.
MissingReferencesDegrade ==
  /\ \A f \in failed : f.cause # "compose"
  /\ \A i \in SceneCalls :
       IF program = "storyboard"
       THEN Undefined \notin Range(log[i].cref)
       ELSE /\ Range(Handles(log[i])) \subseteq Range2(refsAtScenes)
            /\ Len(log[i].cref) <= Len(SceneOf(log[i].item).characters)
            /\ log[i].details \in
                 {characterDetails(SceneOf(log[i].item), script),
                  characterPrompts(SceneOf(log[i].item), script)}

\* ---------------------------------------------------------------- C15
\* The scene lists a name that no character of the script has.
ListsUnknownName(scene) ==
  \E k \in 1..Len(scene.characters) : ~Known(script, scene.characters[k])

\* C15 (unknown character name tolerance): the submitted prompt of a scene has,
\* at the place of every listed name that no character of the script has, the
\* bare name; building the prompt of a scene that lists such a name does not
\* throw, and the run does not reject.
UnknownNameTolerated ==
  program # "storyboard" =>
    /\ \A i \in SceneCalls :
         LET scene == SceneOf(log[i].item)
         IN  /\ Len(log[i].details) = Len(scene.characters)
             /\ \A k \in 1..Len(scene.characters) :
                  ~Known(script, scene.characters[k]) =>
                    log[i].details[k] = <<scene.characters[k]>>
    /\ \A f \in failed :
         f.cause = "compose" => ~ListsUnknownName(SceneOf(f.item))
    /\ pc # "rejected"

\* ---------------------------------------------------------------- C16
\* The positions of a log that submit a prompt.
Submissions(l) == {i \in 1..Len(l) : l[i].op = "Imagine"}

\* The delay of the item submitted at position i comes at a position in S.
DelayedIn(i, S) ==
  \E k \in S : log[k].op = "Delay" /\ log[k].item = log[i].item

\* C16 (inter-request delay): between two prompt submissions of a run comes the
\* delay of the earlier one, and in a run that has ended every submitted item,
\* completed or failed, was followed by its delay.
DelayAfterEveryItem ==
  /\ \A i, j \in Submissions(log) : i < j => DelayedIn(i, (i + 1)..(j - 1))
  /\ pc = "done" =>
       \A i \in Submissions(log) : DelayedIn(i, (i + 1)..Len(log))

\* ---------------------------------------------------------------- C18
\* The script of the scenario: characters A and B, one scene listing [A, B].
ScriptAB ==
  [characters |-> <<[name |-> "A"], [name |-> "B"]>>,
   scenes |-> <<[sceneNumber |-> 1, characters |-> <<"A", "B">>,
                 cameraAngle |-> <<"low angle">>]>>]

\* A run of exampleScript.ts over ScriptAB has ended with nothing having failed
\* and every Imagine result having had two options.
ScenarioRan ==
  /\ program = "generator"
  /\ script = ScriptAB
  /\ pc = "done"
  /\ failed = {}
  /\ fatal = {}
  /\ \A item \in DOMAIN metadataFiles : metadataFiles[item].allVariations = 2

\* C18 (end-to-end scenario): after that run, both characters and the scene
\* have their image and their metadata on disk, the ledger lists A, B and the
\* scene, and the submitted scene prompt starts its directives with the
\* reference to A, which carries the emphasis.
EndToEndScenario ==
  ScenarioRan =>
    /\ DOMAIN mainFiles = DeclaredItems
    /\ DOMAIN metadataFiles = DeclaredItems
    /\ ledgerFile.state = "valid"
    /\ parse(ledgerFile.text).completedCharacters = <<"A", "B">>
    /\ Len(parse(ledgerFile.text).completedScenes) = 1
    /\ \A i \in SceneCalls :
         /\ log[i].cref # <<>>
         /\ log[i].cref[1] = [cref |-> characterRefs["A"], cw |-> TRUE]

\* ---------------------------------------------------------------- C19
\* The positions of the log where `op` is issued for `item`.
CallsOf(op, item) ==
  {i \in 1..Len(log) : log[i].op = op /\ log[i].item = item}

\* C19 (per-item state machine): in one run an item is submitted at most once
\* and upscaled at most once, after its submission; once it has failed no
\* backend operation is in flight for it; and in a run that has ended, the
\* failure of a submitted item has not kept any other item from being
\* submitted.
ItemStateMachine ==
  /\ \A item \in DeclaredItems :
       /\ Cardinality(CallsOf("Imagine", item)) <= 1
       /\ Cardinality(CallsOf("Upscale", item)) <= 1
       /\ \A u \in CallsOf("Upscale", item) :
            \E i \in CallsOf("Imagine", item) : i < u
  /\ \A f \in failed : \A o \in inflight : o[2] # f.item
  /\ (pc = "done" /\ \E f \in failed : f.item \in Items(log, "Imagine")) =>
       DeclaredItems \subseteq Items(log, "Imagine") \cup Completed(loaded)

\* ---------------------------------------------------------------- C20
\* The items of the script, characters then scenes, in declaration order.
Declared ==
  [i \in 1..Len(script.characters) |->
     <<"character", toLowerCase(script.characters[i].name)>>]
  \o [i \in 1..Len(script.scenes) |->
        <<"scene", padStart3(script.scenes[i].sceneNumber)>>]

\* The place of an item in that order.
Place(item) == CHOOSE k \in 1..Len(Declared) : Declared[k] = item

\* The items a run has tried to generate: submitted, or failed before that.
Attempted == Items(log, "Imagine") \cup {f.item : f \in failed}

\* C20 (declaration order): the submissions of a script-driven run are in the
\* order in which the script declares the items, and so are its delays; a run
\* that has ended without a setup failure has attempted every declared item
\* (no ledger exists there that could skip one).
DeclarationOrder ==
  program # "storyboard" =>
    /\ \A i, j \in 1..Len(log) :
         (i < j /\ log[i].op = log[j].op /\ log[i].op \in {"Imagine", "Delay"})
           => Place(log[i].item) < Place(log[j].item)
    /\ (pc = "done" /\ fatal = {}) => Range(Declared) \subseteq Attempted

\* ---------------------------------------------------------------- C21
\* The characters (by the key of the reference map) submitted in this run.
SubmittedCharacters ==
  IF program = "storyboard" THEN Items(log, "Imagine") \cap CharacterNames
  ELSE {script.characters[i].name : i \in
          {j \in 1..Len(script.characters) :
             <<"character", toLowerCase(script.characters[j].name)>>
               \in Items(log, "Imagine")}}

\* The failures after which the generation of the item still returns its
\* result to the character loop.
Swallowed ==
  CASE program = "generator" -> {"variation", "download"}
    [] program = "sceneGenerator" -> {"upscaleNull"}
    [] OTHER -> {}

\* The characters whose generation returned no result in this run.
FailedCharacters ==
  {n \in SubmittedCharacters :
     \E f \in failed : n \in RefKeys(f.item) /\ f.cause \notin Swallowed}

HandleSetOnce ==
  [][run' = run =>
       \A n \in DOMAIN characterRefs :
         n \in DOMAIN characterRefs' /\ characterRefs'[n] = characterRefs[n]]_vars

\* Two characters have their handle, the second set while the first was there.
HandleSetOnceWitness ==
  /\ Cardinality(DOMAIN characterRefs) >= 2
  /\ phase = "scenes"
  /\ Len(log) >= 3


\* C23 (ledger load/save): what loadProgress returns at the start of a storyboard
\* run is the empty default when there is no ledger file, is exactly the state
\* passed to the last saveProgress when that save has completed, and is in every
\* case a state passed to some earlier completed save or the empty default.
LedgerLoadSave ==
  (program = "storyboard" /\ pc = "connect") =>
    /\ ledgerFile.state = "absent" => loaded = EmptyProgress
    /\ ledgerFile.state = "valid" => loaded = saves[Len(saves)]
    /\ loaded \in Range(saves) \cup {EmptyProgress}

\* C23 witness: a later run has loaded a ledger listing characters and a scene.
LedgerLoadSaveWitness ==
  /\ program = "storyboard"
  /\ pc = "connect"
  /\ run >= 2
  /\ Len(loaded.completedCharacters) >= 1
  /\ Len(loaded.completedScenes) >= 1


\* ---------------------------------------------------------------- C24
\* C24 (filter-then-join): no scene prompt submitted by a script-driven run has
\* an empty token, that is, two separators with nothing between them; an
\* empty or absent optional field leaves no trace in the text.
NoEmptyToken ==
  program # "storyboard" =>
    \A i \in SceneCalls : \A k \in 1..Len(log[i].tokens) : log[i].tokens[k] # <<>>


\* ---------------------------------------------------------------- C25
\* C25 (defined references): in a storyboard run, whenever a scene prompt is
\* composed every character the ledger lists as complete has an entry in
\* characterRefs, and no scene prompt is submitted with an undefined reference.
NoUndefinedReference ==
  program = "storyboard" =>
    /\ pc = "sceneImagine" =>
         Range(progress.completedCharacters) \subseteq DOMAIN characterRefs
    /\ \A i \in SceneCalls :
         \A k \in 1..Len(log[i].cref) : log[i].cref[k] # Undefined


\* ---------------------------------------------------------------- C26
\* A list in which no name appears twice.
NoDuplicates(list) ==
  \A i, j \in 1..Len(list) : list[i] = list[j] => i = j

\* C26 (the ledger only grows): over all the runs, each state written to the
\* ledger lists every name the state written before it listed, and no state
\* written lists a name twice in either of its lists.
LedgerOnlyGrows ==
  \A i \in 1..Len(saves) :
    /\ NoDuplicates(saves[i].completedCharacters)
    /\ NoDuplicates(saves[i].completedScenes)
    /\ i > 1 => Completed(saves[i - 1]) \subseteq Completed(saves[i])


\* ---------------------------------------------------------------- C27
\* C27 (connection scoping): every step that issues an Imagine or an Upscale
\* call is taken by a run whose Connect has completed and whose Close has not
\* been called.
ConnectionScoping ==
  [][Len(log') > Len(log) => (client = "connected" /\ ~closed)]_vars

\* C27 witness: a run has connected, issued calls for several items, and closed
\* its client.
ConnectionScopingWitness ==
  /\ client = "connected"
  /\ closed
  /\ Cardinality(BackendCalls(log)) >= 3


\* ---------------------------------------------------------------- C28
\* What a run does when everything it awaits returns: every step of the three
\* programs but the start of a run and its interruption.
Returns ==
  \/ EnsureDirectories
  \/ LoadProgress
  \/ Connect
  \/ LoadReferences
  \/ CharactersExit
  \/ SkipCharacter
  \/ GenerateCharacter
  \/ ImagineSettles
  \/ UpscaleSettles
  \/ CharacterDownload
  \/ SaveProgressOpen
  \/ SaveProgressWrite
  \/ Delay
  \/ SkipScene
  \/ GenerateScene
  \/ SceneDownload
  \/ WriteReferences
  \/ Catch
  \/ Finally
  \/ ReadScript
  \/ CreateDirectoryStructure
  \/ GeneratorConnect
  \/ GenerateCharacterReference
  \/ CharacterReferencesExit
  \/ GenerateSceneImage
  \/ GeneratorImagineSettles
  \/ MakeVariationsDir
  \/ DownloadVariation
  \/ DownloadSelected
  \/ WriteMetadata
  \/ GeneratorDelay
  \/ GeneratorClose
  \/ GeneratorCatch
  \/ AnimeReadScript
  \/ CreateOutputDirectory
  \/ AnimeConnect
  \/ AnimeGenerateCharacterReference
  \/ AnimeCharacterReferencesExit
  \/ AnimeGenerateScene
  \/ AnimeImagineSettles
  \/ AnimeUpscaleSettles
  \/ AnimeWriteMetadata
  \/ AnimeDelay
  \/ AnimeClose
  \/ AnimeCatch

\* The runs in which no process is interrupted and every awaited call, file
\* operation and delay eventually returns, with whatever outcome.
ReturnsNext == StartRun \/ Returns

\* Where a run is: its place in the code and in its loops.  Every step of
\* Returns moves it.
position == <<pc, ci, si, vi>>

TerminationSpec == Init /\ [][ReturnsNext]_vars /\ WF_position(Returns)

\* The number of items the running program has: characters plus scenes.
NumberOfItems ==
  IF program = "storyboard"
  THEN Len(mainCharacters) + Len(scenes)
  ELSE Len(script.characters) + Len(script.scenes)

\* Backend calls per item: Imagine, and Upscale where the program uses it.
CallsPerItem == IF program = "generator" THEN 1 ELSE 2

\* C28 (termination): when everything a run awaits returns, whatever the
\* outcome of each backend call, a run that has started ends (at every moment
\* the run has ended or ends later), and at no point has it issued more backend
\* calls than its characters plus scenes, times two where Upscale is used.
Termination ==
  /\ []<>Ended
  /\ [](Cardinality(BackendCalls(log)) <= CallsPerItem * NumberOfItems)

\* C28 witness: a run has ended having issued as many backend calls as the
\* bound allows.
TerminationWitness ==
  /\ Ended
  /\ run > 0
  /\ NumberOfItems > 0
  /\ Cardinality(BackendCalls(log)) = CallsPerItem * NumberOfItems

====
